---- MODULE Spec2Model ----
(***************************************************************************)
(* Geostradamus: spatially weighted time-series forecasting.               *)
(*                                                                         *)
(* The model follows src/src/geostradamus.py (Geostradamus.fit and its     *)
(* stages), src/src/utils.py (haversine), src/src/kernel.py                *)
(* (GaussianKernel), src/src/smoother.py (weighted_mean_smoother),         *)
(* src/src/data_models.py (ActiveModels, ProphetSettings) and              *)
(* src/src/time_series.py (run_prophet).                                   *)
(*                                                                         *)
(* Numbers.  The value column y is float64 in the program.  Here a value   *)
(* is an exact fraction <<n, d>>; d = 0 encodes the non-finite floats:     *)
(* <<0, 0>> is NaN (0.0/0.0) and <<1, 0>> is +Inf.  Coordinates are whole  *)
(* degrees on the equator, for which the float64 haversine distance is     *)
(* either exactly 0.0 or at least 111 km, and the float64 Gaussian weight  *)
(* with length_scale 1.0 is then exactly 1.0 or exactly 0.0 (exp           *)
(* underflows to 0.0 below exp(-745.2)).                                   *)
(***************************************************************************)
EXTENDS Integers, Sequences, FiniteSets, TLC

VARIABLES data, raw, pc, args, trace, ret, calls, lastOut

vars == <<data, raw, pc, args, trace, ret, calls, lastOut>>

(***************************************************************************)
(* Bounds of the exploration.                                              *)
(***************************************************************************)
MaxRows == 2
MaxCalls == 2
MaxPeriods == 1
MaxDay == 1

Threads == {1, 2}
Lats == {0}
Lngs == {0, 1}
Values == {10, 20}
Days == 1..MaxDay

None == <<>>

(***************************************************************************)
(* float64 values as fractions.                                            *)
(***************************************************************************)
NaN == <<0, 0>>

RECURSIVE GCD(_, _)
GCD(a, b) == IF b = 0 THEN a ELSE GCD(b, a % b)

Norm(n, d) ==
    IF d = 0 THEN <<IF n = 0 THEN 0 ELSE 1, 0>>
    ELSE LET g == GCD(n, d) IN <<n \div g, d \div g>>

IsFinite(p) == p[2] # 0

\* w * p for a weight w >= 0: 0 * NaN = NaN, 0 * Inf = NaN.
RatScale(w, p) == Norm(w * p[1], p[2])

\* p + q: NaN is absorbing.
RatAdd(p, q) ==
    IF p = NaN \/ q = NaN THEN NaN
    ELSE IF p[2] = 0 \/ q[2] = 0 THEN <<1, 0>>
    ELSE Norm(p[1] * q[2] + q[1] * p[2], p[2] * q[2])

\* p / s for a sum of weights s >= 0: 0/0 = NaN, x/0 = Inf for x > 0.
RatDiv(p, s) == Norm(p[1], p[2] * s)

RECURSIVE DotUpTo(_, _, _)
DotUpTo(weights, values, n) ==
    IF n = 0 THEN <<0, 1>>
    ELSE RatAdd(DotUpTo(weights, values, n - 1), RatScale(weights[n], values[n]))

Dot(weights, values) == DotUpTo(weights, values, Len(weights))

RECURSIVE SumUpTo(_, _)
SumUpTo(s, n) == IF n = 0 THEN 0 ELSE SumUpTo(s, n - 1) + s[n]

Sum(s) == SumUpTo(s, Len(s))

Broadcast(v, n) == [i \in 1..n |-> v]

(***************************************************************************)
(* smoother.py                                                             *)
(***************************************************************************)
weighted_mean_smoother(values, weights) ==
    RatDiv(Dot(weights, values), Sum(weights))

(***************************************************************************)
(* utils.py: great-circle distance in whole kilometres.  For two points on *)
(* the equator the haversine formula reduces to R * |dlng - olng| in       *)
(* radians; pi is taken as 31416/10000.                                    *)
(***************************************************************************)
R == 6371

Abs(x) == IF x < 0 THEN -x ELSE x

haversine(olat, olng, dlat, dlng) ==
    CASE olat = 0 /\ dlat = 0 ->
        (R * 31416 * Abs(dlng - olng)) \div (180 * 10000)

(***************************************************************************)
(* kernel.py: GaussianKernel with the default length_scale = 1.0.          *)
(* z = x^2 / 2; exp(-0) = 1.0 and exp(-z) = 0.0 in float64 once z > 745.2. *)
(* Distances strictly between 0 and 39 km do not occur on the grid.        *)
(***************************************************************************)
GaussianKernel(x) ==
    CASE x = 0 -> 1
      [] x * x > 2 * 746 -> 0

(***************************************************************************)
(* data_models.py                                                          *)
(***************************************************************************)
ActiveModels == {"prophet"}

\* A membership test that lets every identifier through.
InActiveModels_any(model) == TRUE

InActiveModels(model) == model \in ActiveModels

ProphetOptions ==
    {"changepoint_prior_scale", "seasonality_mode", "yearly_seasonality",
     "weekly_seasonality", "daily_seasonality", "interval_width",
     "uncertainty_samples", "mcmc_samples", "seasonality_prior_scale",
     "holidays_prior_scale", "changepoint_range", "growth"}

ProphetDefaults ==
    [k \in ProphetOptions |->
        CASE k = "changepoint_prior_scale" -> "0.05"
          [] k = "seasonality_mode" -> "additive"
          [] k = "yearly_seasonality" -> "False"
          [] k = "weekly_seasonality" -> "False"
          [] k = "daily_seasonality" -> "False"
          [] k = "interval_width" -> "0.95"
          [] k = "uncertainty_samples" -> "0"
          [] k = "mcmc_samples" -> "0"
          [] k = "seasonality_prior_scale" -> "10.0"
          [] k = "holidays_prior_scale" -> "10.0"
          [] k = "changepoint_range" -> "0.8"
          [] k = "growth" -> "linear"]

\* ProphetSettings(**model_settings): a pydantic BaseModel whose Config sets
\* only arbitrary_types_allowed, so keyword arguments that name no field are
\* dropped (pydantic's default extra = "ignore").  model_settings is a set of
\* <<key, value>> pairs with distinct keys.
ProphetSettings(model_settings) ==
    [k \in ProphetOptions |->
        IF \E p \in model_settings : p[1] = k
        THEN (CHOOSE p \in model_settings : p[1] = k)[2]
        ELSE ProphetDefaults[k]]

(***************************************************************************)
(* geostradamus.py: the three table transformations.  A table is a record  *)
(* of columns; cols lists which of the derived columns exist.              *)
(***************************************************************************)
NRows(d) == Len(d.date)

\* Distances measured from the point (0, 0) whatever the target.
get_haversine_distance_origin(d, lat, lng) ==
    [d EXCEPT !.distance = [i \in 1..NRows(d) |->
                               haversine(0, 0, d.lat[i], d.lng[i])],
              !.cols = @ \cup {"distance"}]

get_haversine_distance(d, lat, lng) ==
    [d EXCEPT !.distance = [i \in 1..NRows(d) |->
                               haversine(lat, lng, d.lat[i], d.lng[i])],
              !.cols = @ \cup {"distance"}]

get_weights(d) ==
    [d EXCEPT !.weights = [i \in 1..NRows(d) |-> GaussianKernel(d.distance[i])],
              !.cols = @ \cup {"weights"}]

\* Smoothing that reads the values the instance was constructed with.
smooth_series_raw(d) ==
    [d EXCEPT !.y = Broadcast(weighted_mean_smoother(raw.y, d.weights), NRows(d))]

smooth_series(d) ==
    [d EXCEPT !.y = Broadcast(weighted_mean_smoother(d.y, d.weights), NRows(d))]

(***************************************************************************)
(* Errors and call outcomes.                                               *)
(***************************************************************************)
NoError == [kind |-> "", name |-> "", allowed |-> {}]

\* ValueError(f"Invalid model: {model}. Must be one of {list(ActiveModels)}.")
InvalidModel(model) ==
    [kind |-> "InvalidModel", name |-> model, allowed |-> ActiveModels]

\* polars ColumnNotFoundError for an expression over an absent column.
ColumnNotFound(col) == [kind |-> "ColumnNotFound", name |-> col, allowed |-> {}]

\* ValueError(f"Column {col} not found in predictions")
MissingColumn(col) == [kind |-> "MissingColumn", name |-> col, allowed |-> {}]

\* polars DuplicateError of select() with a repeated column name.
DuplicateColumn(col) == [kind |-> "DuplicateColumn", name |-> col, allowed |-> {}]

\* Any exception of Prophet.fit / Prophet.predict, propagated unchanged.
BackendFailure == [kind |-> "BackendFailure", name |-> "", allowed |-> {}]

NoForecast ==
    [other_columns |-> <<>>, model_settings |-> {}, periods |-> 0,
     constructed |-> FALSE, settings |-> ProphetDefaults,
     handed |-> None, predicted |-> FALSE, ds |-> {}]

NoRet == [status |-> "none", error |-> NoError, result |-> <<>>, fc |-> NoForecast]

Raised(err, fc) == [status |-> "raised", error |-> err, result |-> <<>>, fc |-> fc]

Returned(rows, fc) == [status |-> "returned", error |-> NoError, result |-> rows, fc |-> fc]

(***************************************************************************)
(* time_series.py                                                          *)
(***************************************************************************)
\* Columns of the frame Prophet.predict returns (the ones the model names).
PredictionColumns == <<"ds", "trend", "yhat">>

SeqRange(s) == {s[i] : i \in 1..Len(s)}

SetMax(S) == CHOOSE x \in S : \A y \in S : y <= x

\* The timestamps of the prediction frame: make_future_dataframe gives the
\* history dates followed by `periods` further days.  The backend is opaque,
\* so the history dates it reports are the observed ones less a set `drop`.
PredictionDates(d, periods, drop) ==
    LET hist == SeqRange(d.date)
        last == SetMax(hist)
    IN (hist \ drop) \cup ((last + 1)..(last + periods))

\* lines 49-53
ReturnColumns(other_columns) ==
    IF other_columns # <<>> THEN PredictionColumns \o other_columns
    ELSE PredictionColumns

\* A column check that rejects nothing.
MissingColumns_none(return_columns) == <<>>

\* lines 55-57: the columns the loop would reject, in loop order.
MissingColumns(return_columns) ==
    SelectSeq(return_columns, LAMBDA c : c \notin SeqRange(PredictionColumns))

HasDuplicates(s) == \E i, j \in 1..Len(s) : i < j /\ s[i] = s[j]

FirstDuplicate(s) ==
    s[CHOOSE j \in 1..Len(s) :
        /\ \E i \in 1..(j - 1) : s[i] = s[j]
        /\ \A k \in 1..(j - 1) : ~ \E i \in 1..(k - 1) : s[i] = s[k]]

\* An inner join: rows of data without a match are left out.
InnerJoin(d, ds) ==
    SelectSeq([i \in 1..NRows(d) |->
                  [date |-> d.date[i], y |-> d.y[i], yhat |-> "forecast"]],
              LAMBDA r : r.date \in ds)

\* lines 59-66: data.join(..., left_on="date", right_on="ds", how="left").
\* The right side has one row per timestamp, so each row of data yields one
\* row; its prediction columns are null when its date has no match.
LeftJoin(d, ds) ==
    [i \in 1..NRows(d) |->
        [date |-> d.date[i], y |-> d.y[i],
         yhat |-> IF d.date[i] \in ds THEN "forecast" ELSE "null"]]

run_prophet(d, other_columns, model_settings, periods, fitOk, drop) ==
    LET settings == ProphetSettings(model_settings)
        ds == PredictionDates(d, periods, drop)
        return_columns == ReturnColumns(other_columns)
        missing == MissingColumns(return_columns)
        built == [NoForecast EXCEPT !.model_settings = model_settings,
                                    !.constructed = TRUE,
                                    !.settings = settings,
                                    !.handed = d.y]
        fc == [built EXCEPT !.other_columns = other_columns,
                            !.periods = periods,
                            !.predicted = TRUE,
                            !.ds = ds]
    IN  IF ~fitOk THEN Raised(BackendFailure, built)
        ELSE IF missing # <<>> THEN Raised(MissingColumn(Head(missing)), fc)
        ELSE IF HasDuplicates(return_columns)
             THEN Raised(DuplicateColumn(FirstDuplicate(return_columns)), fc)
        ELSE Returned(LeftJoin(d, ds), fc)

(***************************************************************************)
(* State.                                                                  *)
(*   data     self.data, the working table of the instance                 *)
(*   raw      the table the instance was constructed with                  *)
(*   pc       per caller, the stage of fit it is about to run              *)
(*   args     per caller, the arguments of its fit call                    *)
(*   ret      per caller, what its fit call returned or raised             *)
(*   calls    number of fit calls started                                  *)
(*   trace    per caller, history of its call: the table at entry, the     *)
(*            stages that ran, the columns the stages read, whether        *)
(*            another caller wrote self.data during the call               *)
(*   lastOut  the value column written by the latest smoothing stage       *)
(***************************************************************************)
Rows == [date : Days, y : Values, lat : Lats, lng : Lngs]

\* No stage depends on the order of the rows (they work row by row, sum over
\* all rows, or join row by row), so the tables are enumerated up to row
\* order: rows in non-decreasing order of (lng, y, date).
RowKey(r) == (r.lng * 100 + r.y) * 100 + r.date

Tables ==
    {rows \in UNION {[1..n -> Rows] : n \in 1..MaxRows} :
        \A i, j \in 1..Len(rows) : i < j => RowKey(rows[i]) <= RowKey(rows[j])}

TableOf(rows) ==
    [date |-> [i \in 1..Len(rows) |-> rows[i].date],
     y |-> [i \in 1..Len(rows) |-> <<rows[i].y, 1>>],
     lat |-> [i \in 1..Len(rows) |-> rows[i].lat],
     lng |-> [i \in 1..Len(rows) |-> rows[i].lng],
     distance |-> <<>>,
     weights |-> <<>>,
     cols |-> {}]

NoArgs == [lat |-> 0, lng |-> 0, model |-> "prophet", distance |-> None, weights |-> None]

NoTrace ==
    [entry |-> None, stages |-> {}, readDist |-> None, readW |-> None,
     priorOut |-> None, interfered |-> FALSE]

Init ==
    /\ \E rows \in Tables : data = TableOf(rows)
    /\ raw = data
    /\ pc = [t \in Threads |-> "idle"]
    /\ args = [t \in Threads |-> NoArgs]
    /\ trace = [t \in Threads |-> NoTrace]
    /\ ret = [t \in Threads |-> NoRet]
    /\ calls = 0
    /\ lastOut = None

\* The arguments callers pass to fit besides the target location.  A
\* precomputed distance column puts every row at the target (0 km); a
\* precomputed weights column is uniform.  drops is how many history dates
\* the backend may leave out of its prediction frame.
AnyInputs ==
    [models |-> {"prophet", "arima"},
     distances |-> {None, <<0>>},
     weights |-> {None, <<1>>},
     other_columns |-> {<<>>, <<"foo">>, <<"yhat">>, <<"yhat", "foo">>},
     model_settings |-> {{}, {<<"growth", "flat">>, <<"foo", "1">>}},
     periods |-> 0..MaxPeriods,
     drops |-> 0..1]

\* The defaults of fit's signature: fit(lat, lng) and nothing else.
DefaultInputs ==
    [models |-> {"prophet"},
     distances |-> {None},
     weights |-> {None},
     other_columns |-> {<<>>},
     model_settings |-> {{}},
     periods |-> {0},
     drops |-> {0}]

\* A series argument of the table's length.
SeriesArg(a, n) == IF a = None THEN None ELSE Broadcast(a[1], n)

InFlight(t) == pc[t] \notin {"idle", "done"}

\* The histories after caller t replaces its own by mine and writes newData
\* to self.data: every other caller in the middle of a call has been
\* interfered with when the table changed under it.
Traces(t, mine, newData) ==
    [u \in Threads |->
        IF u = t THEN mine
        ELSE IF InFlight(u) /\ newData # data
             THEN [trace[u] EXCEPT !.interfered = TRUE]
        ELSE trace[u]]

(***************************************************************************)
(* fit, lines 41-71: the call is entered and the model identifier checked. *)
(***************************************************************************)
Fit(t, inputs) ==
    /\ pc[t] \in {"idle", "done"}
    /\ calls < MaxCalls
    /\ \E lat \in Lats, lng \in Lngs, model \in inputs.models,
          distance \in inputs.distances, weights \in inputs.weights :
        /\ args' = [args EXCEPT ![t] =
              [lat |-> lat, lng |-> lng, model |-> model,
               distance |-> SeriesArg(distance, NRows(data)),
               weights |-> SeriesArg(weights, NRows(data))]]
        /\ IF ~InActiveModels(model)
           THEN /\ ret' = [ret EXCEPT ![t] = Raised(InvalidModel(model), NoForecast)]
                /\ pc' = [pc EXCEPT ![t] = "done"]
           ELSE /\ ret' = [ret EXCEPT ![t] = NoRet]
                /\ pc' = [pc EXCEPT ![t] = "distance"]
    /\ trace' = [trace EXCEPT ![t] = [NoTrace EXCEPT !.entry = data]]
    /\ calls' = calls + 1
    /\ UNCHANGED <<data, raw, lastOut>>

(***************************************************************************)
(* fit, lines 74-75                                                        *)
(***************************************************************************)
DistanceStage(t) ==
    /\ pc[t] = "distance"
    /\ LET compute == args[t].distance = None
           newData == IF compute
                      THEN get_haversine_distance(data, args[t].lat, args[t].lng)
                      ELSE data
           mine == IF compute
                   THEN [trace[t] EXCEPT !.stages = @ \cup {"distance"}]
                   ELSE trace[t]
       IN /\ data' = newData
          /\ trace' = Traces(t, mine, newData)
    /\ pc' = [pc EXCEPT ![t] = "weights"]
    /\ UNCHANGED <<raw, args, ret, calls, lastOut>>

(***************************************************************************)
(* fit, lines 77-78.  get_weights evaluates kernel(pl.col("distance")) on  *)
(* self.data, which raises when the table has no distance column.          *)
(***************************************************************************)
WeightStage(t) ==
    /\ pc[t] = "weights"
    /\ IF args[t].weights # None
       THEN /\ pc' = [pc EXCEPT ![t] = "smooth"]
            /\ UNCHANGED <<data, trace, ret>>
       ELSE IF "distance" \notin data.cols
       THEN /\ pc' = [pc EXCEPT ![t] = "done"]
            /\ ret' = [ret EXCEPT ![t] = Raised(ColumnNotFound("distance"), NoForecast)]
            /\ UNCHANGED <<data, trace>>
       ELSE /\ pc' = [pc EXCEPT ![t] = "smooth"]
            /\ data' = get_weights(data)
            /\ trace' = Traces(t, [trace[t] EXCEPT !.stages = @ \cup {"weights"},
                                                   !.readDist = data.distance],
                               get_weights(data))
            /\ UNCHANGED ret
    /\ UNCHANGED <<raw, args, calls, lastOut>>

(***************************************************************************)
(* fit, line 81.  smooth_series evaluates the smoother over pl.col("y")    *)
(* and pl.col("weights") of self.data.                                     *)
(***************************************************************************)
SmoothStage(t) ==
    /\ pc[t] = "smooth"
    /\ IF "weights" \notin data.cols
       THEN /\ pc' = [pc EXCEPT ![t] = "done"]
            /\ ret' = [ret EXCEPT ![t] = Raised(ColumnNotFound("weights"), NoForecast)]
            /\ UNCHANGED <<data, trace, lastOut>>
       ELSE /\ pc' = [pc EXCEPT ![t] = "forecast"]
            /\ data' = smooth_series(data)
            /\ lastOut' = smooth_series(data).y
            /\ trace' = Traces(t, [trace[t] EXCEPT !.stages = @ \cup {"smooth"},
                                                   !.readW = data.weights,
                                                   !.priorOut = lastOut],
                               smooth_series(data))
            /\ UNCHANGED ret
    /\ UNCHANGED <<raw, args, calls>>

(***************************************************************************)
(* fit, lines 84-94: dispatch to the backend.                              *)
(***************************************************************************)
ForecastStage(t, inputs) ==
    /\ pc[t] = "forecast"
    /\ \E other_columns \in inputs.other_columns,
          model_settings \in inputs.model_settings,
          periods \in inputs.periods,
          fitOk \in BOOLEAN,
          drop \in {S \in SUBSET SeqRange(data.date) :
                       Cardinality(S) \in inputs.drops} :
        ret' = [ret EXCEPT ![t] =
                  IF args[t].model = "prophet"
                  THEN run_prophet(data, other_columns, model_settings,
                                   periods, fitOk, drop)
                  ELSE Raised(InvalidModel(args[t].model), NoForecast)]
    /\ pc' = [pc EXCEPT ![t] = "done"]
    /\ UNCHANGED <<data, raw, args, trace, calls, lastOut>>

(***************************************************************************)
(* One caller at a time (the program is single-threaded and synchronous).  *)
(***************************************************************************)
Next ==
    \/ Fit(1, AnyInputs)
    \/ DistanceStage(1)
    \/ WeightStage(1)
    \/ SmoothStage(1)
    \/ ForecastStage(1, AnyInputs)

Spec == Init /\ [][Next]_vars

(***************************************************************************)
(* Two callers sharing one instance, interleaved between stages, each      *)
(* calling fit(lat, lng) with the other arguments at their defaults.       *)
(***************************************************************************)
NextConc ==
    \E t \in Threads :
        \/ Fit(t, DefaultInputs)
        \/ DistanceStage(t)
        \/ WeightStage(t)
        \/ SmoothStage(t)
        \/ ForecastStage(t, DefaultInputs)

SpecConc == Init /\ [][NextConc]_vars

(***************************************************************************)
(* Properties.                                                             *)
(***************************************************************************)
Absent(col) == \A i \in 1..Len(PredictionColumns) : PredictionColumns[i] # col

HasAbsent(cols) == \E i \in 1..Len(cols) : Absent(cols[i])

FirstAbsent(cols) ==
    cols[CHOOSE i \in 1..Len(cols) :
            Absent(cols[i]) /\ \A j \in 1..(i - 1) : ~Absent(cols[j])]

AllZero(w) == w # None /\ \A i \in 1..Len(w) : w[i] = 0

\* The weights the default kernel gives the rows of the table for the target
\* of caller t's call.
OwnWeights(t) ==
    [i \in 1..NRows(data) |->
        GaussianKernel(haversine(args[t].lat, args[t].lng, data.lat[i], data.lng[i]))]

Smoothed(values, weights) ==
    Broadcast(weighted_mean_smoother(values, weights), Len(values))

\* C1: a fit call whose model identifier is not a supported one ends with the
\* invalid-model error naming the identifier and the allowed set, no stage
\* has run, and the working table is the one the call found.
C1_InvalidModelRejected ==
    \A t \in Threads :
        (pc[t] = "done" /\ args[t].model \notin ActiveModels) =>
            /\ ret[t].status = "raised"
            /\ ret[t].error.kind = "InvalidModel"
            /\ ret[t].error.name = args[t].model
            /\ ret[t].error.allowed = ActiveModels
            /\ trace[t].stages = {}
            /\ ~ret[t].fc.constructed
            /\ data = trace[t].entry

\* C1 witness: "arima" rejected on an instance an earlier call has worked on.
C1_Witness ==
    /\ pc[1] = "done"
    /\ args[1].model = "arima"
    /\ ret[1].error.kind = "InvalidModel"
    /\ "weights" \in data.cols
    /\ data = trace[1].entry

\* C2 (as claimed): once a smoothing stage has read weights that are all
\* zero, the call has raised the degenerate-state error and the value column
\* holds no non-finite number.
C2_ZeroWeightsRaise ==
    \A t \in Threads :
        ("smooth" \in trace[t].stages /\ AllZero(trace[t].readW)) =>
            /\ ret[t].status = "raised"
            /\ ret[t].error.kind = "DegenerateWeights"
            /\ \A i \in 1..NRows(data) : IsFinite(data.y[i])

\* C3 (as claimed): a call whose model_settings holds an unrecognized key
\* ends with the invalid-configuration error and no backend was constructed.
C3_UnknownSettingRejected ==
    \A t \in Threads :
        (pc[t] = "done" /\ \E p \in ret[t].fc.model_settings : p[1] \notin ProphetOptions) =>
            /\ ret[t].status = "raised"
            /\ ret[t].error.kind = "InvalidConfiguration"
            /\ ~ret[t].fc.constructed

\* C4: when other_columns holds a name the prediction frame lacks, the call
\* that reached the column check raises the missing-column error naming the
\* first such name and returns no table.
C4_MissingColumnRaises ==
    \A t \in Threads :
        (pc[t] = "done" /\ ret[t].fc.predicted /\ HasAbsent(ret[t].fc.other_columns)) =>
            /\ ret[t].status = "raised"
            /\ ret[t].error.kind = "MissingColumn"
            /\ ret[t].error.name = FirstAbsent(ret[t].fc.other_columns)
            /\ Absent(ret[t].error.name)
            /\ ret[t].result = <<>>

\* C4 witness: the absent name comes after a present one in the list.
C4_Witness ==
    /\ pc[1] = "done"
    /\ ret[1].fc.predicted
    /\ ret[1].fc.other_columns = <<"yhat", "foo">>
    /\ ret[1].error.kind = "MissingColumn"
    /\ ret[1].error.name = "foo"

\* C5 (as claimed): a supplied distance column is not recomputed and is what
\* the weight stage reads; a supplied weights column is not recomputed and
\* is what the smoothing stage reads.
C5_SuppliedColumnsUsed ==
    \A t \in Threads :
        (pc[t] # "idle" /\ args[t].model \in ActiveModels) =>
            /\ (args[t].distance # None => "distance" \notin trace[t].stages)
            /\ (args[t].weights # None => "weights" \notin trace[t].stages)
            /\ (args[t].distance # None /\ args[t].weights = None
                    /\ pc[t] \in {"smooth", "forecast", "done"}
                  => trace[t].readDist = args[t].distance)
            /\ (args[t].weights # None /\ pc[t] \in {"forecast", "done"}
                  => trace[t].readW = args[t].weights)

\* C6: when a smoothing stage has run before, the value column a later
\* smoothing stage writes is the smoother applied to the values the earlier
\* stage wrote (with the weights now in the table), not to the raw values.
C6_SecondFitSmoothsSmoothed ==
    \A t \in Threads :
        (pc[t] = "forecast" /\ trace[t].priorOut # None) =>
            data.y = Smoothed(trace[t].priorOut, data.weights)

\* C6 witness: a second smoothing whose result differs from what the raw
\* values would have given with the same weights.
C6_Witness ==
    /\ pc[1] = "forecast"
    /\ trace[1].priorOut # None
    /\ trace[1].priorOut # raw.y
    /\ \A i \in 1..NRows(data) : IsFinite(data.y[i])
    /\ data.y # Smoothed(raw.y, data.weights)

\* C7: a returned table has a row for every row of the working table, at
\* least as many rows as it, and null predictions where the row's date has
\* no forecast row.
C7_LeftJoinKeepsRows ==
    \A t \in Threads :
        ret[t].status = "returned" =>
            /\ Len(ret[t].result) >= NRows(data)
            /\ \A i \in 1..NRows(data) :
                  \E j \in 1..Len(ret[t].result) :
                      /\ ret[t].result[j].date = data.date[i]
                      /\ ret[t].result[j].y = data.y[i]
                      /\ data.date[i] \notin ret[t].fc.ds
                            => ret[t].result[j].yhat = "null"

\* C7 witness: a returned table with a row whose predictions are null.
C7_Witness ==
    /\ ret[1].status = "returned"
    /\ NRows(data) >= 2
    /\ \E j \in 1..Len(ret[1].result) : ret[1].result[j].yhat = "null"

\* C8 (as claimed): with periods > 0, every forecast row dated after the last
\* observation is a row of the returned table.
C8_FutureRowsReturned ==
    \A t \in Threads :
        (ret[t].status = "returned" /\ ret[t].fc.periods > 0) =>
            \A d \in ret[t].fc.ds :
                d > SetMax(SeqRange(data.date)) =>
                    \E j \in 1..Len(ret[t].result) : ret[t].result[j].date = d

\* C9: with two callers on one instance, the weights a call's smoothing
\* stage read differ from the weights of its own target only when the other
\* caller wrote the table during the call; and that does happen (witness).
C9_StaleOnlyByInterleaving ==
    \A t \in Threads :
        ("smooth" \in trace[t].stages /\ trace[t].readW # OwnWeights(t)) =>
            trace[t].interfered

\* C9 witness: caller t handed the backend a series smoothed with the
\* weights of caller u's target, which differ from those of its own.
C9_Witness ==
    \E t, u \in Threads :
        /\ t # u
        /\ pc[t] = "done"
        /\ ret[t].fc.constructed
        /\ args[t].lng # args[u].lng
        /\ trace[t].readW = OwnWeights(u)
        /\ trace[t].readW # OwnWeights(t)
        /\ ret[t].fc.handed = Smoothed(raw.y, OwnWeights(u))
        /\ ret[t].fc.handed # Smoothed(raw.y, OwnWeights(t))

\* C10 (as claimed): every call that passed model validation ran the
\* smoothing stage, and for a non-zero weight sum it wrote the weighted mean
\* of the values it found into every row.
C10_SmoothingAlwaysRuns ==
    \A t \in Threads :
        (pc[t] = "done" /\ args[t].model \in ActiveModels) =>
            /\ "smooth" \in trace[t].stages
            /\ Sum(trace[t].readW) # 0 =>
                  data.y = Smoothed(trace[t].entry.y, trace[t].readW)

====
